---- MODULE Spec2Model ----
(***************************************************************************)
(* Model of generate_data, the synthetic table generator of                *)
(* ConfoundingInteraction.ipynb (cell 2, lines 63-116).                    *)
(*                                                                         *)
(* Strings that the code parses (feature names, coefficient keys, the      *)
(* target name) are sequences of one-character strings, so that            *)
(* `":" in feature` and `feature.split(":")` are computed, not assumed.    *)
(* A dict and a DataFrame are sequences of <<key, value>> pairs in         *)
(* insertion order.  Probabilities of Bernoulli features and the uniform   *)
(* variates of the generator are in percent.  The numbers of the table are *)
(* integers, except the results of the logistic transform, which are       *)
(* float64 values in [0,1] kept as records (see Logistic).                 *)
(***************************************************************************)
EXTENDS Integers, Sequences, FiniteSets, TLC

VARIABLES
    coefficients,          \* argument: ordered dict key -> coefficient
    distributions,         \* argument: ordered dict feature -> dist_params
    target,                \* argument: name of the target column
    target_type,           \* argument: "binary" or other
    number_of_datapoints,  \* argument
    seed,                  \* state of np.random when the call starts
    rng,                   \* state of np.random (process-wide generator)
    data,                  \* local dict `data`
    sampled,               \* the columns as lines 89-93 produced them (history)
    df,                    \* local DataFrame `df`
    pc,                    \* position in generate_data
    i,                     \* index of the next item of distributions.items()
    j,                     \* index of the next item of coefficients.items()
    err,                   \* exception raised out of the call, or "none"
    score,                 \* df[target] as it entered line 110 (history)
    p_arg,                 \* the p handed to np.random.binomial on line 113 (history)
    runs,                  \* number of calls started from `seed`
    prev                   \* outcome of the previous call from `seed`

vars == <<coefficients, distributions, target, target_type, number_of_datapoints,
          seed, rng, data, sampled, df, pc, i, j, err, score, p_arg, runs, prev>>

args == <<coefficients, distributions, target, target_type, number_of_datapoints, seed>>

-----------------------------------------------------------------------------
(* Bounds of the model *)

\* Largest number_of_datapoints tried (the smallest is -1).
MaxRows == 2

\* Largest number of entries of the coefficients dict.
MaxTerms == 2

-----------------------------------------------------------------------------
(* float64 facts used by line 110, `1 / (1 + np.exp(-x))` *)

\* np.exp(y) overflows to inf for y >= 710 (exp(709) ~ 8.2e307 is finite).
ExpOverflow == 710

\* 1 + np.exp(-x) rounds to exactly 1.0 for x >= 37 (exp(-37) < 2^-53 < exp(-36)).
OneAbsorb == 37

-----------------------------------------------------------------------------
(* Strings *)

Colon == ":"

\* `":" in feature`
HasColon(s) == \E k \in 1..Len(s) : s[k] = Colon

FirstColon(s) == CHOOSE k \in 1..Len(s) : s[k] = Colon /\ \A m \in 1..(k-1) : s[m] # Colon

RECURSIVE Split(_)
\* `feature.split(":")`: the substrings between the separators, empty ones kept.
Split(s) ==
    IF ~HasColon(s) THEN <<s>>
    ELSE LET k == FirstColon(s)
         IN  <<SubSeq(s, 1, k - 1)>> \o Split(SubSeq(s, k + 1, Len(s)))

-----------------------------------------------------------------------------
(* dict / DataFrame: sequences of <<key, value>> in insertion order *)

Keys(d) == [k \in 1..Len(d) |-> d[k][1]]

Has(d, name) == \E k \in 1..Len(d) : d[k][1] = name

\* d[name], for a key that is present
Get(d, name) == d[CHOOSE k \in 1..Len(d) : d[k][1] = name][2]

\* d[name] = value: an existing key keeps its position, a new key goes last
Put(d, name, value) ==
    IF Has(d, name)
    THEN [k \in 1..Len(d) |-> IF d[k][1] = name THEN <<name, value>> ELSE d[k]]
    ELSE Append(d, <<name, value>>)

Rows == 1..number_of_datapoints

-----------------------------------------------------------------------------
(* np.random: a deterministic generator with process-wide state *)

RngStates == 0..3

Advance(st, k) == (st + k) % 4

\* Mutant: the variate comes from a generator that `seed` does not govern.
UniformUnseeded(st) == IF (st \in {1, 2}) = (runs = 1) THEN 50 ELSE 0

\* The uniform variate in [0,1) produced in state st, in percent.
Uniform(st) == IF st \in {1, 2} THEN 50 ELSE 0

\* The standard normal variate produced in state st.
StdNormal(st) == IF Uniform(st) = 0 THEN -1 ELSE 1

\* One Bernoulli trial with success probability p percent.
Trial(p, st) == IF Uniform(st) < p THEN 1 ELSE 0

\* Mutant: p is not validated.
BinomialRaisesOnSizeOnly(p, size) == size < 0

\* np.random.binomial(1, p, size) with scalar p: ValueError for p outside
\* [0,1] and for a negative size, else `size` independent trials.
BinomialRaises(p, size) == p < 0 \/ p > 100 \/ size < 0

Binomial(p, size, st) == [r \in 1..size |-> Trial(p, Advance(st, r - 1))]

\* np.random.normal(loc, scale, size): ValueError for a negative scale and
\* for a negative size.
NormalRaises(loc, scale, size) == scale < 0 \/ size < 0

Normal(loc, scale, size, st) ==
    [r \in 1..size |-> loc + scale * StdNormal(Advance(st, r - 1))]

\* np.full(size, v), np.zeros(size): ValueError for a negative size.
FullRaises(size) == size < 0

Full(size, v) == [r \in 1..size |-> v]

Zeros(size) == [r \in 1..size |-> 0]

-----------------------------------------------------------------------------
(* Line 110: lambda x: 1 / (1 + np.exp(-x)) in float64.                       *)
(* The result is a float64 in [0,1]: exactly 0.0, exactly 1.0, or a value  *)
(* strictly between, which is identified by its logit x (the transform is  *)
(* strictly increasing where it does not saturate).                        *)

FloatZero == [zero |-> TRUE, one |-> FALSE, logit |-> 0]

FloatOne == [zero |-> FALSE, one |-> TRUE, logit |-> 0]

FloatMid(x) == [zero |-> FALSE, one |-> FALSE, logit |-> x]

\* Mutant: `1 // (1 + np.exp(-x))`, floor division.
LogisticFloorDivision(x) == IF x >= OneAbsorb THEN FloatOne ELSE FloatZero

Logistic(x) ==
    IF -x >= ExpOverflow THEN FloatZero      \* np.exp(-x) = inf, 1/(1+inf) = 0.0
    ELSE IF x >= OneAbsorb THEN FloatOne     \* 1 + np.exp(-x) = 1.0, 1/1.0 = 1.0
    ELSE FloatMid(x)                         \* 1 < 1 + np.exp(-x) < inf

\* One Bernoulli trial whose success probability is the float64 p.
TrialFloat(p, st) ==
    IF p.one THEN 1
    ELSE IF p.zero THEN 0
    ELSE IF Uniform(st) = 0 \/ p.logit > 0 THEN 1 ELSE 0

\* np.random.binomial(1, p, size) with p a column of probabilities.
BinomialColumn(p, size, st) == [r \in 1..size |-> TrialFloat(p[r], Advance(st, r - 1))]

-----------------------------------------------------------------------------
(* Inputs *)

FeatureNames == {<<"x">>, <<"y">>}

TargetNames == {<<"t">>, <<"x">>}

TargetTypes == {"binary", "continuous"}

DistParams ==
    {<<"bernouli", p>> : p \in {0, 50, 100, 150}}
    \cup {<<"gaussian", 0, s>> : s \in {-1, 1}}
    \cup {<<"constant", 1>>, <<"poisson", 1>>}

DistributionDicts ==
    {<<>>}
    \cup {<< <<a, s>> >> : a \in FeatureNames, s \in DistParams}
    \cup {<< <<a, s>>, <<b, u>> >> :
            <<a, b>> \in {ab \in FeatureNames \X FeatureNames : ab[1] # ab[2]},
            <<s, u>> \in DistParams \X DistParams}

CoefficientKeys == {<<"x">>, <<"y">>, <<"x", ":", "y">>, <<"t">>}

CoefficientValues == {-710, 37}

RECURSIVE CoefficientDictsOfLen(_)
CoefficientDictsOfLen(k) ==
    IF k = 0 THEN {<<>>}
    ELSE {Append(d, <<key, c>>) :
            <<d, key, c>> \in
                {dkc \in CoefficientDictsOfLen(k - 1) \X CoefficientKeys \X CoefficientValues :
                    ~Has(dkc[1], dkc[2])}}

CoefficientDicts == UNION {CoefficientDictsOfLen(k) : k \in 0..MaxTerms}

NoTable == <<>>

NoOutcome == [err |-> "none", table |-> NoTable, returned |-> FALSE]

Init ==
    /\ coefficients \in CoefficientDicts
    /\ distributions \in DistributionDicts
    /\ target \in TargetNames
    /\ target_type \in TargetTypes
    /\ number_of_datapoints \in (-1)..MaxRows
    /\ seed \in RngStates
    /\ rng = seed
    /\ data = <<>>
    /\ sampled = <<>>
    /\ df = NoTable
    /\ pc = "features"
    /\ i = 1
    /\ j = 1
    /\ err = "none"
    /\ score = <<>>
    /\ p_arg = <<>>
    /\ runs = 1
    /\ prev = NoOutcome

-----------------------------------------------------------------------------
(* generate_data *)

Raise(e) ==
    /\ err' = e
    /\ pc' = "raised"

\* Lines 85-93: one iteration of `for feature, dist_params in distributions.items()`.
SampleFeature ==
    /\ pc = "features"
    /\ i <= Len(distributions)
    /\ LET feature == distributions[i][1]
           dist_params == distributions[i][2]
           distribution == dist_params[1]
           n == number_of_datapoints
       IN  \/ /\ distribution = "bernouli"
              /\ IF BinomialRaises(dist_params[2], n)
                 THEN Raise("ValueError") /\ UNCHANGED <<data, sampled, rng, i>>
                 ELSE /\ data' = Put(data, feature, Binomial(dist_params[2], n, rng))
                      /\ sampled' = Put(sampled, feature, Binomial(dist_params[2], n, rng))
                      /\ rng' = Advance(rng, n)
                      /\ i' = i + 1
                      /\ UNCHANGED <<err, pc>>
           \/ /\ distribution = "gaussian"
              /\ IF NormalRaises(dist_params[2], dist_params[3], n)
                 THEN Raise("ValueError") /\ UNCHANGED <<data, sampled, rng, i>>
                 ELSE /\ data' = Put(data, feature,
                                     Normal(dist_params[2], dist_params[3], n, rng))
                      /\ sampled' = Put(sampled, feature,
                                        Normal(dist_params[2], dist_params[3], n, rng))
                      /\ rng' = Advance(rng, n)
                      /\ i' = i + 1
                      /\ UNCHANGED <<err, pc>>
           \/ /\ distribution = "constant"
              /\ IF FullRaises(n)
                 THEN Raise("ValueError") /\ UNCHANGED <<data, sampled, rng, i>>
                 ELSE /\ data' = Put(data, feature, Full(n, dist_params[2]))
                      /\ sampled' = Put(sampled, feature, Full(n, dist_params[2]))
                      /\ i' = i + 1
                      /\ UNCHANGED <<err, pc, rng>>
           \/ /\ distribution \notin {"bernouli", "gaussian", "constant"}
              /\ i' = i + 1
              /\ UNCHANGED <<data, sampled, err, pc, rng>>
    /\ UNCHANGED <<args, df, j, score, p_arg, runs, prev>>

\* Lines 96-100: the target accumulator, data[target], df = pd.DataFrame(data).
InitTarget ==
    /\ pc = "features"
    /\ i > Len(distributions)
    /\ IF FullRaises(number_of_datapoints)
       THEN Raise("ValueError") /\ UNCHANGED <<data, df>>
       ELSE /\ data' = Put(data, target, Zeros(number_of_datapoints))
            /\ df' = data'
            /\ pc' = "coefficients"
            /\ UNCHANGED err
    /\ UNCHANGED <<args, rng, sampled, i, j, score, p_arg, runs, prev>>

\* Line 106: df[a] * df[b] * coefficient, elementwise.
InteractionTerm(d, a, b, coefficient) ==
    [r \in Rows |-> Get(d, a)[r] * Get(d, b)[r] * coefficient]

\* Line 108: df[feature] * coefficient, elementwise.
MainTerm(d, feature, coefficient) ==
    [r \in Rows |-> Get(d, feature)[r] * coefficient]

\* df[target] += term
AddToTarget(d, term) ==
    Put(d, target, [r \in Rows |-> Get(d, target)[r] + term[r]])

\* Lines 103-108: one iteration of `for feature, coefficient in coefficients.items()`.
\* df[name] raises KeyError for a name that is no column of df.
ApplyCoefficient ==
    /\ pc = "coefficients"
    /\ j <= Len(coefficients)
    /\ LET feature == coefficients[j][1]
           coefficient == coefficients[j][2]
           sub_features == Split(feature)
       IN  IF HasColon(feature)
           THEN IF Has(df, sub_features[1]) /\ Has(df, sub_features[2])
                THEN /\ df' = AddToTarget(df, InteractionTerm(df, sub_features[1],
                                                              sub_features[2], coefficient))
                     /\ j' = j + 1
                     /\ UNCHANGED <<err, pc>>
                ELSE Raise("KeyError") /\ UNCHANGED <<df, j>>
           ELSE IF Has(df, feature)
                THEN /\ df' = AddToTarget(df, MainTerm(df, feature, coefficient))
                     /\ j' = j + 1
                     /\ UNCHANGED <<err, pc>>
                ELSE Raise("KeyError") /\ UNCHANGED <<df, j>>
    /\ UNCHANGED <<args, rng, data, sampled, i, score, p_arg, runs, prev>>

\* Line 110: df[target] = df[target].apply(lambda x: 1 / (1 + np.exp(-x))).
LogisticTransform ==
    /\ pc = "coefficients"
    /\ j > Len(coefficients)
    /\ score' = Get(df, target)
    /\ df' = Put(df, target, [r \in Rows |-> Logistic(Get(df, target)[r])])
    /\ pc' = "target_type"
    /\ UNCHANGED <<args, rng, data, sampled, i, j, err, p_arg, runs, prev>>

\* Mutant: line 113 hands the stale accumulator `target_data` (np.zeros) to the draw.
DrawProbabilitiesStale(d) == [r \in Rows |-> FloatZero]

\* Line 113: the p of the draw is df[target].
DrawProbabilities(d) == Get(d, target)

\* Lines 112-116 with target_type == "binary": the draw, then `return df`.
BinaryDraw ==
    /\ pc = "target_type"
    /\ target_type = "binary"
    /\ p_arg' = DrawProbabilities(df)
    /\ df' = Put(df, target, BinomialColumn(DrawProbabilities(df), number_of_datapoints, rng))
    /\ rng' = Advance(rng, number_of_datapoints)
    /\ pc' = "returned"
    /\ UNCHANGED <<args, data, sampled, i, j, err, score, runs, prev>>

\* Lines 112, 116 with any other target_type: `return df`.
ReturnContinuous ==
    /\ pc = "target_type"
    /\ target_type # "binary"
    /\ pc' = "returned"
    /\ UNCHANGED <<args, rng, data, sampled, df, i, j, err, score, p_arg, runs, prev>>

Next ==
    \/ SampleFeature
    \/ InitTarget
    \/ ApplyCoefficient
    \/ LogisticTransform
    \/ BinaryDraw
    \/ ReturnContinuous

Spec == Init /\ [][Next]_vars

-----------------------------------------------------------------------------
(* Two calls with the same arguments from the same generator state *)

Outcome == [err |-> err, table |-> df, returned |-> pc = "returned"]

\* The caller keeps what the first call gave, puts np.random back into the
\* state `seed` and calls generate_data again with the same arguments.
Rerun ==
    /\ pc \in {"returned", "raised"}
    /\ runs = 1
    /\ prev' = Outcome
    /\ runs' = 2
    /\ rng' = seed
    /\ data' = <<>>
    /\ sampled' = <<>>
    /\ df' = NoTable
    /\ pc' = "features"
    /\ i' = 1
    /\ j' = 1
    /\ err' = "none"
    /\ score' = <<>>
    /\ p_arg' = <<>>
    /\ UNCHANGED args

NextTwice ==
    \/ SampleFeature
    \/ InitTarget
    \/ ApplyCoefficient
    \/ LogisticTransform
    \/ BinaryDraw
    \/ ReturnContinuous
    \/ Rerun

SpecTwice == Init /\ [][NextTwice]_vars

-----------------------------------------------------------------------------
(* Vocabulary of the properties *)

Returned == pc = "returned"

Raised == pc = "raised"

TargetColumn == Get(df, target)

FeatureKeys == Keys(distributions)

SupportedKinds == {"bernouli", "gaussian", "constant"}

HasUnsupportedKind ==
    \E k \in 1..Len(distributions) : distributions[k][2][1] \notin SupportedKinds

\* p outside [0,1], negative sigma, negative n
InvalidBernoulli(dp) == dp[1] = "bernouli" /\ (dp[2] < 0 \/ dp[2] > 100)

InvalidGaussian(dp) == dp[1] = "gaussian" /\ dp[3] < 0

HasInvalidParameter ==
    \/ number_of_datapoints < 0
    \/ \E k \in 1..Len(distributions) :
          InvalidBernoulli(distributions[k][2]) \/ InvalidGaussian(distributions[k][2])

\* The names a coefficient key refers to: the key itself, or the sides of "a:b".
NamesOf(key) == {Split(key)[k] : k \in 1..Len(Split(key))}

KeysNameOnlyFeatures ==
    \A k \in 1..Len(coefficients) :
        \A name \in NamesOf(coefficients[k][1]) : Has(distributions, name)

TargetIsFeatureName == Has(distributions, target)

\* The request is one the data model of the generator describes: supported
\* kinds, valid parameters, keys that name features, a target name of its own.
WellFormed ==
    /\ ~HasUnsupportedKind
    /\ ~HasInvalidParameter
    /\ KeysNameOnlyFeatures
    /\ ~TargetIsFeatureName

\* The product of the sampled features a key names, at row r.
RECURSIVE FeatureProduct(_, _)
FeatureProduct(names, r) ==
    IF names = <<>> THEN 1
    ELSE Get(sampled, Head(names))[r] * FeatureProduct(Tail(names), r)

\* S: the sum over the first k entries of coefficient x product of the features.
RECURSIVE LinearScore(_, _)
LinearScore(k, r) ==
    IF k = 0 THEN 0
    ELSE LinearScore(k - 1, r)
         + coefficients[k][2] * FeatureProduct(Split(coefficients[k][1]), r)

KeysNameSampledFeatures ==
    \A k \in 1..Len(coefficients) :
        \A name \in NamesOf(coefficients[k][1]) : Has(sampled, name)

-----------------------------------------------------------------------------
(* C1 *)

\* C1: for every call with a non-binary target kind and for every row, the
\* returned target value is logistic(S), S the sum over the entries of the
\* coefficient mapping of coefficient x feature (main effect) or coefficient x
\* feature_a x feature_b (interaction), taken on that row's sampled features.
C1_TargetIsLogisticOfScore ==
    (Returned /\ target_type # "binary" /\ KeysNameSampledFeatures)
        => \A r \in Rows : TargetColumn[r] = Logistic(LinearScore(Len(coefficients), r))

\* The same statement restricted to well-formed requests.
C1_OnWellFormedRequests ==
    (Returned /\ target_type # "binary" /\ WellFormed)
        => \A r \in Rows : TargetColumn[r] = Logistic(LinearScore(Len(coefficients), r))

C1_WellFormedReached ==
    /\ Returned /\ target_type # "binary" /\ WellFormed
    /\ Len(coefficients) = 2 /\ number_of_datapoints = 2
    /\ \E k \in 1..2 : HasColon(coefficients[k][1])

-----------------------------------------------------------------------------
(* C2 *)

\* C2: when an entry of distributions has a kind outside bernouli, gaussian,
\* constant, the call fails and returns no table; no table is ever returned
\* with that feature's column absent.
C2_UnsupportedKindNeverReturns ==
    Returned => ~HasUnsupportedKind

-----------------------------------------------------------------------------
(* C3 *)

\* C3: when a coefficient key (a main effect or a side of an interaction)
\* names a feature absent from distributions, the call fails before the draw
\* of the target and returns no table.
C3_UnknownFeatureNeverReturns ==
    ~KeysNameOnlyFeatures => (~Returned /\ p_arg = <<>> /\ pc # "target_type")

-----------------------------------------------------------------------------
(* C4 *)

-----------------------------------------------------------------------------
(* C5 *)

\* C5: in every table returned for a binary target the target column holds,
\* for each row, 0 or 1: the outcome of one trial whose success probability
\* is the logistic transform of the row's linear score (a probability of
\* exactly 1.0 gives 1, of exactly 0.0 gives 0), not the linear score.
C5_BinaryTargetIsZeroOrOne ==
    (Returned /\ target_type = "binary") =>
        /\ Len(TargetColumn) = number_of_datapoints
        /\ Len(p_arg) = number_of_datapoints
        /\ \A r \in Rows :
              /\ TargetColumn[r] \in {0, 1}
              /\ p_arg[r] = Logistic(score[r])
              /\ (p_arg[r].one => TargetColumn[r] = 1)
              /\ (p_arg[r].zero => TargetColumn[r] = 0)

C5_Reached ==
    /\ Returned /\ target_type = "binary"
    /\ number_of_datapoints = 2
    /\ TargetColumn = <<0, 1>>
    /\ score[1] # 0
    /\ ~p_arg[1].zero

-----------------------------------------------------------------------------
(* C6 *)

StrictlyInside(v) == ~v.zero /\ ~v.one

\* C6 as stated: in every table returned for a non-binary target, every
\* target value is strictly between 0 and 1.
C6_AlwaysStrictlyInside ==
    (Returned /\ target_type # "binary") =>
        \A r \in Rows : StrictlyInside(TargetColumn[r])

\* C6 as amended: in every table returned for a non-binary target, a target
\* value is strictly between 0 and 1 whenever the row's linear score S has
\* -709 <= S <= 36; from S = 37 on it is exactly 1.0 and down from S = -710
\* it is exactly 0.0.
C6_StrictlyInsideUnlessSaturated ==
    (Returned /\ target_type # "binary") =>
        \A r \in Rows :
            /\ (score[r] >= -709 /\ score[r] =< 36) => StrictlyInside(TargetColumn[r])
            /\ score[r] >= 37 => TargetColumn[r].one
            /\ score[r] =< -710 => TargetColumn[r].zero

C6_Reached ==
    /\ Returned /\ target_type # "binary"
    /\ number_of_datapoints = 2
    /\ StrictlyInside(TargetColumn[1])
    /\ score[1] # 0
    /\ TargetColumn[2].one

-----------------------------------------------------------------------------
(* C7 *)

\* C7: every returned table has exactly n rows, one column per entry of
\* distributions in its insertion order, and the target column last.
C7_TableShape ==
    Returned =>
        /\ Keys(df) = FeatureKeys \o <<target>>
        /\ \A k \in 1..Len(df) : Len(df[k][2]) = number_of_datapoints

\* The same statement restricted to well-formed requests.
C7_OnWellFormedRequests ==
    (Returned /\ WellFormed) =>
        /\ Keys(df) = FeatureKeys \o <<target>>
        /\ \A k \in 1..Len(df) : Len(df[k][2]) = number_of_datapoints

-----------------------------------------------------------------------------
(* C8 *)

Finished == Returned \/ Raised

-----------------------------------------------------------------------------
(* C9 *)

ColumnsAreEmpty == \A k \in 1..Len(df) : df[k][2] = <<>>

\* C9: for n = 0 and coefficients that name only defined features (the
\* kinds and parameters being ones the generator accepts), the call does not
\* raise, and the table it returns has no rows and the feature names followed
\* by the target name as its column names.
C9_EmptyTable ==
    (number_of_datapoints = 0 /\ KeysNameOnlyFeatures
        /\ ~HasInvalidParameter /\ ~HasUnsupportedKind) =>
        /\ ~Raised
        /\ Returned => (Keys(df) = FeatureKeys \o <<target>> /\ ColumnsAreEmpty)

\* The same statement restricted to well-formed requests.
C9_OnWellFormedRequests ==
    (number_of_datapoints = 0 /\ WellFormed) =>
        /\ ~Raised
        /\ Returned => (Keys(df) = FeatureKeys \o <<target>> /\ ColumnsAreEmpty)

-----------------------------------------------------------------------------
(* C10 *)

Degenerate(dp) ==
    \/ dp[1] = "constant"
    \/ dp[1] = "bernouli" /\ dp[2] \in {0, 100}

DegenerateValue(dp) ==
    IF dp[1] = "constant" THEN dp[2] ELSE IF dp[2] = 100 THEN 1 ELSE 0

\* The target column holds float64 results of line 110 from that line until
\* the binary draw replaces them.
TargetHoldsFloats == pc = "target_type" \/ (Returned /\ target_type # "binary")

\* A float64 in [0,1] equals the integer n.
FloatEqualsInt(v, n) == (n = 1 /\ v.one) \/ (n = 0 /\ v.zero)

\* Column `name` of df holds v in every row.
ColumnIsConstant(name, v) ==
    /\ Len(Get(df, name)) = number_of_datapoints
    /\ \A r \in Rows :
          IF name = target /\ TargetHoldsFloats
          THEN FloatEqualsInt(Get(df, name)[r], v)
          ELSE Get(df, name)[r] = v

\* C10: in every returned table the column of a Constant(v) feature holds v
\* in all n rows, that of a Bernoulli(0) feature 0 and that of a Bernoulli(1)
\* feature 1, whatever the generator yields.
C10_DegenerateColumns ==
    Returned =>
        \A k \in 1..Len(distributions) :
            Degenerate(distributions[k][2]) =>
                /\ Has(df, distributions[k][1])
                /\ ColumnIsConstant(distributions[k][1], DegenerateValue(distributions[k][2]))

\* The same statement restricted to well-formed requests.
C10_OnWellFormedRequests ==
    (Returned /\ WellFormed) =>
        \A k \in 1..Len(distributions) :
            Degenerate(distributions[k][2]) =>
                /\ Has(df, distributions[k][1])
                /\ ColumnIsConstant(distributions[k][1], DegenerateValue(distributions[k][2]))

-----------------------------------------------------------------------------
(* C11 *)

\* Column `name` of df holds, row by row, the values of `col` (integers).
ColumnHolds(name, col) ==
    /\ Len(Get(df, name)) = Len(col)
    /\ \A r \in 1..Len(col) :
          IF name = target /\ TargetHoldsFloats
          THEN FloatEqualsInt(Get(df, name)[r], col[r])
          ELSE Get(df, name)[r] = col[r]

FeatureColumnsAsSampled ==
    \A k \in 1..Len(sampled) :
        Has(df, sampled[k][1]) /\ ColumnHolds(sampled[k][1], sampled[k][2])

\* C11: no feature column is mutated after its creation: from the moment the
\* table is built to the table that is returned, every feature column holds
\* exactly the values sampled for it in lines 89-93; the target accumulator,
\* the coefficient terms, the logistic transform and the binary draw change
\* the target column only.
C11_FeatureColumnsNeverMutated ==
    pc \in {"coefficients", "target_type", "returned"} => FeatureColumnsAsSampled

\* The same statement restricted to well-formed requests.
C11_OnWellFormedRequests ==
    (pc \in {"coefficients", "target_type", "returned"} /\ WellFormed)
        => FeatureColumnsAsSampled

====
